---- MODULE Spec2Model ----
(***************************************************************************)
(* A model of data_manager.py (class DataManager): the caption, frame-path *)
(* and key-frame stores, the assembly of the aligned feature corpus        *)
(* (features, captions, frame_paths), the two brute-force k-nearest-       *)
(* neighbour queries, and save/load of the whole state.                    *)
(*                                                                         *)
(* Representation.                                                         *)
(*  - A Python str is a sequence of one-character strings, so that the     *)
(*    slices file[:-4], name[:13], name[13:], endswith and sorted() are    *)
(*    computed, not assumed.                                               *)
(*  - A file path is the sequence of its '/'-separated components.         *)
(*  - A dict is a function with a finite domain; << >> is the empty dict.  *)
(*  - A float is a fixed-point integer: a stored component x stands for    *)
(*    x / Unit, a dot product of two vectors for s / (Unit * Unit), and a  *)
(*    Euclidean distance d for d / (Unit * DistPrec).                      *)
(*  - Feature rows in the feature files are well-formed numeric rows.      *)
(***************************************************************************)
EXTENDS Integers, Sequences, FiniteSets, TLC

\* ------------------------------------------------------------------ bounds

\* Largest corpus drawn for the query specification.
MaxN == 3
\* Largest k a query is asked for.
MaxK == 3
\* Cap on len(raw_captions): load_captions extends it on every call.
MaxRaw == 2
\* Cap on len(features): load_features appends again after an aborted call.
MaxCorpus == 3

\* --------------------------------------------------------- program constants

\* name[:13] / name[13:] (load_features, get_video_segment_caption)
PrefixLen == 13
\* assert len(video_segment_name) >= 14
MinNameLen == 14
\* file[:-4]: the length of '.txt'
ExtLen == 4
\* Fixed-point denominator of a stored float component.
Unit == 5
\* Extra decimal precision kept by the square root of a distance.
DistPrec == 100
\* np.inf, as a number above every distance the model can compute.
Inf == 1000000

\* ------------------------------------------------------------------ strings

Digits == <<"0", "1", "2", "3", "4", "5", "6", "7", "8", "9">>

\* The characters used, in ASCII order ('.' < digits < upper < '_' < lower).
Alphabet == <<".">> \o Digits \o <<"A", "B", "_", "d", "f", "g", "j", "k", "m", "p", "t", "v", "x">>

Ord(c) == CHOOSE i \in 1..Len(Alphabet) : Alphabet[i] = c

IsDigit(c) == \E i \in 1..Len(Digits) : Digits[i] = c

DigitVal(c) == (CHOOSE i \in 1..Len(Digits) : Digits[i] = c) - 1

\* Python's a < b on str: lexicographic by character code, a proper prefix first.
RECURSIVE StrLessFrom(_, _, _)
StrLessFrom(a, b, i) ==
    IF i > Len(a) THEN i <= Len(b)
    ELSE IF i > Len(b) THEN FALSE
    ELSE IF a[i] # b[i] THEN Ord(a[i]) < Ord(b[i])
    ELSE StrLessFrom(a, b, i + 1)

StrLess(a, b) == StrLessFrom(a, b, 1)

\* sorted(files)
RECURSIVE Sorted(_)
Sorted(S) ==
    IF S = {} THEN << >>
    ELSE LET m == CHOOSE x \in S : \A y \in S : x = y \/ StrLess(x, y)
         IN  <<m>> \o Sorted(S \ {m})

\* file.endswith(suffix)
EndsWith(s, suffix) ==
    /\ Len(s) >= Len(suffix)
    /\ SubSeq(s, Len(s) - Len(suffix) + 1, Len(s)) = suffix

\* s[:n] and s[n:]
Take(s, n) == SubSeq(s, 1, IF n < Len(s) THEN n ELSE Len(s))
Drop(s, n) == SubSeq(s, n + 1, Len(s))

\* file[:-4]
StripExt(s) == SubSeq(s, 1, Len(s) - ExtLen)

\* file.split('.')[0]
RECURSIVE BeforeDotFrom(_, _)
BeforeDotFrom(s, i) ==
    IF i > Len(s) THEN s
    ELSE IF s[i] = "." THEN SubSeq(s, 1, i - 1)
    ELSE BeforeDotFrom(s, i + 1)

BeforeDot(s) == BeforeDotFrom(s, 1)

\* int(s) succeeds on a non-empty string of decimal digits.
IsNumeral(s) == Len(s) >= 1 /\ \A i \in 1..Len(s) : IsDigit(s[i])

RECURSIVE IntOf(_)
IntOf(s) ==
    IF Len(s) = 0 THEN 0
    ELSE 10 * IntOf(SubSeq(s, 1, Len(s) - 1)) + DigitVal(s[Len(s)])

Txt == <<".", "t", "x", "t">>
Jpg == <<".", "j", "p", "g">>

\* os.path.join(root, file) and file_path.split('/')[-2]
PathJoin(root, file) == Append(root, file)
ParentName(path) == path[Len(path) - 1]

\* ------------------------------------------------------------------ numbers

\* floor(sqrt(n)) by bisection on [lo, hi).
RECURSIVE ISqrtIn(_, _, _)
ISqrtIn(n, lo, hi) ==
    IF hi - lo <= 1 THEN lo
    ELSE LET mid == (lo + hi) \div 2
         IN  IF mid * mid <= n THEN ISqrtIn(n, mid, hi) ELSE ISqrtIn(n, lo, mid)

\* The least power of two, from h on, whose square exceeds n.
RECURSIVE PowerAbove(_, _)
PowerAbove(n, h) == IF h * h > n THEN h ELSE PowerAbove(n, 2 * h)

ISqrt(n) == ISqrtIn(n, 0, PowerAbove(n, 1))

RECURSIVE SumSeq(_)
SumSeq(s) == IF Len(s) = 0 THEN 0 ELSE s[1] + SumSeq(Tail(s))

\* The L2 norm of a fixed-point vector, in the vector's own unit.
L2Norm(v) == ISqrt(SumSeq([i \in 1..Len(v) |-> v[i] * v[i]]))

\* sklearn.preprocessing.normalize on one row: x / ||x||, a zero row is kept.
NormalizeRow(v) ==
    LET n == L2Norm(v)
    IN  IF n = 0 THEN v ELSE [i \in 1..Len(v) |-> (v[i] * Unit) \div n]

\* np.dot of two 1-d arrays: defined when the lengths agree.
DotDefined(a, b) == Len(a) = Len(b)
Dot(a, b) == SumSeq([i \in 1..Len(a) |-> a[i] * b[i]])

\* feature - query under numpy broadcasting of 1-d arrays: the lengths agree or
\* one of them is 1.
BroadcastOk(a, b) == Len(a) = Len(b) \/ Len(a) = 1 \/ Len(b) = 1
BroadcastLen(a, b) == IF Len(a) >= Len(b) THEN Len(a) ELSE Len(b)
At(a, i) == IF Len(a) = 1 THEN a[1] ELSE a[i]
Minus(a, b) == [i \in 1..BroadcastLen(a, b) |-> At(a, i) - At(b, i)]

\* np.linalg.norm(feature - query_feature), with DistPrec of extra precision.
Distance(a, b) ==
    LET d == Minus(a, b)
    IN  ISqrt(SumSeq([i \in 1..Len(d) |-> d[i] * d[i]]) * DistPrec * DistPrec)

\* ------------------------------------------------------------------- state

VARIABLES
    video_seg_id_to_caption,  \* dict (video_name, segment_id) -> caption
    video_seg_frame_path,     \* dict (video segment name, frame_idx) -> frame path
    features,                 \* the feature vectors, in corpus order
    features_type,            \* "list" until np.array / normalize makes it "ndarray"
    captions,                 \* caption of each feature
    raw_captions,             \* all captions appeared
    frame_paths,              \* frame path of each feature
    video_seg_feature_path,   \* dict video segment name -> feature file
    key_frames,               \* dict video segment name -> set of key frames
    snapshot,                 \* the pickle file at save_path: << >> or <<tuple>>
    at_save,                  \* history: the named fields when save last ran
    ret                       \* outcome of the last operation

stores == <<video_seg_id_to_caption, video_seg_frame_path, raw_captions,
            video_seg_feature_path, key_frames>>
corpus == <<features, features_type, captions, frame_paths>>
vars == <<video_seg_id_to_caption, video_seg_frame_path, features, features_type,
          captions, raw_captions, frame_paths, video_seg_feature_path, key_frames,
          snapshot, at_save, ret>>

\* A Python dict: d[k] = v, and k in d.
Put(d, k, v) == (k :> v) @@ d
Has(d, k) == k \in DOMAIN d

\* What an operation that returns nothing leaves in ret.
Outcome(op, err) ==
    [op |-> op, status |-> IF err = "none" THEN "ok" ELSE "error", err |-> err]

\* DataManager.__init__
FreshManager ==
    /\ video_seg_id_to_caption = << >>
    /\ video_seg_frame_path = << >>
    /\ features = << >>
    /\ features_type = "list"
    /\ captions = << >>
    /\ raw_captions = << >>
    /\ frame_paths = << >>
    /\ video_seg_feature_path = << >>
    /\ key_frames = << >>

\* ------------------------------------------------- load_frame_path_info

\* The inner loop over sorted(files) of one directory, from file i on.
RECURSIVE FramePathFiles(_, _, _, _)
FramePathFiles(st, root, names, i) ==
    IF i > Len(names) \/ st.err # "none" THEN st
    ELSE LET file == names[i]
             file_path == PathJoin(root, file)
             video_segment_name == ParentName(file_path)
             stem == BeforeDot(file)
         IN  IF ~EndsWith(file, Jpg)
             THEN FramePathFiles(st, root, names, i + 1)
             ELSE IF ~IsNumeral(stem)
             THEN [st EXCEPT !.err = "ValueError"]
             ELSE FramePathFiles(
                      [st EXCEPT !.map = Put(st.map,
                                             <<video_segment_name, IntOf(stem) - 1>>,
                                             file_path)],
                      root, names, i + 1)

\* The outer loop over os.walk(frame_folder), from directory d on.
RECURSIVE FramePathWalk(_, _, _)
FramePathWalk(st, walk, d) ==
    IF d > Len(walk) \/ st.err # "none" THEN st
    ELSE FramePathWalk(
             FramePathFiles(st, walk[d].root, Sorted(DOMAIN walk[d].files), 1),
             walk, d + 1)

load_frame_path_info(frame_folder) ==
    LET st == FramePathWalk([map |-> video_seg_frame_path, err |-> "none"],
                            frame_folder, 1)
    IN  /\ video_seg_frame_path' = st.map
        /\ ret' = Outcome("load_frame_path_info", st.err)
        /\ UNCHANGED <<video_seg_id_to_caption, corpus, raw_captions,
                       video_seg_feature_path, key_frames, snapshot, at_save>>

\* ------------------------------------------------------------ load_captions

\* for seg_id in range(len(sentences)), from seg_id on.
RECURSIVE CaptionSentences(_, _, _, _)
CaptionSentences(map, video_name, sentences, seg_id) ==
    IF seg_id >= Len(sentences) THEN map
    ELSE CaptionSentences(Put(map, <<video_name, seg_id>>, sentences[seg_id + 1]),
                          video_name, sentences, seg_id + 1)

\* for video_name in database.keys(), from entry i on; the database is the
\* sequence of its (video_name, data) items in key order.
RECURSIVE CaptionVideos(_, _, _)
CaptionVideos(st, database, i) ==
    IF i > Len(database) THEN st
    ELSE LET video_name == database[i].video_name
             sentences == database[i].sentences
         IN  CaptionVideos(
                 [map |-> CaptionSentences(st.map, video_name, sentences, 0),
                  raw |-> st.raw \o sentences],
                 database, i + 1)

load_captions(caption_file) ==
    LET st == CaptionVideos([map |-> video_seg_id_to_caption, raw |-> raw_captions],
                            caption_file, 1)
    IN  /\ Len(st.raw) <= MaxRaw
        /\ video_seg_id_to_caption' = st.map
        /\ raw_captions' = st.raw
        /\ ret' = Outcome("load_captions", "none")
        /\ UNCHANGED <<video_seg_frame_path, corpus, video_seg_feature_path,
                       key_frames, snapshot, at_save>>

\* ----------------------------------------------- load_key_frame_information

\* set(np.int32(data)) of the numbers np.loadtxt read
SetOf(data) == {data[i] : i \in 1..Len(data)}

RECURSIVE KeyFrameFiles(_, _, _, _)
KeyFrameFiles(st, files, names, i) ==
    IF i > Len(names) \/ st.err # "none" THEN st
    ELSE LET file == names[i]
             video_segment_name == StripExt(file)
         IN  IF ~EndsWith(file, Txt)
             THEN KeyFrameFiles(st, files, names, i + 1)
             ELSE IF ~(Len(video_segment_name) >= MinNameLen)
             THEN [st EXCEPT !.err = "AssertionError"]
             ELSE KeyFrameFiles(
                      [st EXCEPT !.map = Put(st.map, video_segment_name,
                                             SetOf(files[file]))],
                      files, names, i + 1)

RECURSIVE KeyFrameWalk(_, _, _)
KeyFrameWalk(st, walk, d) ==
    IF d > Len(walk) \/ st.err # "none" THEN st
    ELSE KeyFrameWalk(
             KeyFrameFiles(st, walk[d].files, Sorted(DOMAIN walk[d].files), 1),
             walk, d + 1)

load_key_frame_information(keyframe_info_folder) ==
    LET st == KeyFrameWalk([map |-> key_frames, err |-> "none"],
                           keyframe_info_folder, 1)
    IN  /\ key_frames' = st.map
        /\ ret' = Outcome("load_key_frame_information", st.err)
        /\ UNCHANGED <<video_seg_id_to_caption, video_seg_frame_path, corpus,
                       raw_captions, video_seg_feature_path, snapshot, at_save>>

\* ------------------------------------------------------------ load_features

\* A variant of IsKeyFrame that takes the key-frame numbers as 1-based.
IsKeyFrameOneBased(count, kf) == count + 1 \in kf

\* if count in key_frames
IsKeyFrame(count, kf) == count \in kf

\* for line in f, from frame index count on: a key frame's row is appended to
\* features, then its caption to captions, then its frame path is looked up.
RECURSIVE FeatureRows(_, _, _, _, _, _)
FeatureRows(st, video_segment_name, caption, kf, rows, count) ==
    IF count >= Len(rows) \/ st.err # "none" THEN st
    ELSE IF ~IsKeyFrame(count, kf)
    THEN FeatureRows(st, video_segment_name, caption, kf, rows, count + 1)
    ELSE IF st.ftype # "list"
    THEN [st EXCEPT !.err = "AttributeError"]
    ELSE LET appended == [st EXCEPT !.feat = Append(st.feat, rows[count + 1]),
                                    !.caps = Append(st.caps, caption)]
         IN  IF ~Has(video_seg_frame_path, <<video_segment_name, count>>)
             THEN [appended EXCEPT !.err = "KeyError:frame_path"]
             ELSE FeatureRows(
                      [appended EXCEPT !.paths =
                          Append(appended.paths,
                                 video_seg_frame_path[<<video_segment_name, count>>])],
                      video_segment_name, caption, kf, rows, count + 1)

\* A variant of FeatureFile that skips a segment without a caption instead of
\* failing on the lookup.
FeatureFileSkippingUncaptioned(st, root, file, rows) ==
    LET file_path == PathJoin(root, file)
        video_segment_name == StripExt(file)
        video_name == Take(video_segment_name, PrefixLen)
        suffix == Drop(video_segment_name, PrefixLen)
        st1 == [st EXCEPT !.vsfp = Put(st.vsfp, video_segment_name, file_path)]
    IN  IF ~(Len(video_segment_name) >= MinNameLen)
        THEN [st EXCEPT !.err = "AssertionError"]
        ELSE IF ~IsNumeral(suffix)
        THEN [st EXCEPT !.err = "ValueError"]
        ELSE IF ~Has(video_seg_id_to_caption, <<video_name, IntOf(suffix)>>)
        THEN st1
        ELSE IF ~Has(key_frames, video_segment_name)
        THEN [st1 EXCEPT !.err = "KeyError:key_frames"]
        ELSE FeatureRows(st1, video_segment_name,
                         video_seg_id_to_caption[<<video_name, IntOf(suffix)>>],
                         key_frames[video_segment_name], rows, 0)

\* The body of the loop over sorted(files) for one '.txt' file.
FeatureFile(st, root, file, rows) ==
    LET file_path == PathJoin(root, file)
        video_segment_name == StripExt(file)
        video_name == Take(video_segment_name, PrefixLen)
        suffix == Drop(video_segment_name, PrefixLen)
        st1 == [st EXCEPT !.vsfp = Put(st.vsfp, video_segment_name, file_path)]
    IN  IF ~(Len(video_segment_name) >= MinNameLen)
        THEN [st EXCEPT !.err = "AssertionError"]
        ELSE IF ~IsNumeral(suffix)
        THEN [st EXCEPT !.err = "ValueError"]
        ELSE IF ~Has(video_seg_id_to_caption, <<video_name, IntOf(suffix)>>)
        THEN [st1 EXCEPT !.err = "KeyError:caption"]
        ELSE IF ~Has(key_frames, video_segment_name)
        THEN [st1 EXCEPT !.err = "KeyError:key_frames"]
        ELSE FeatureRows(st1, video_segment_name,
                         video_seg_id_to_caption[<<video_name, IntOf(suffix)>>],
                         key_frames[video_segment_name], rows, 0)

RECURSIVE FeatureFiles(_, _, _, _, _)
FeatureFiles(st, root, files, names, i) ==
    IF i > Len(names) \/ st.err # "none" THEN st
    ELSE IF ~EndsWith(names[i], Txt)
    THEN FeatureFiles(st, root, files, names, i + 1)
    ELSE FeatureFiles(FeatureFile(st, root, names[i], files[names[i]]),
                      root, files, names, i + 1)

RECURSIVE FeatureWalk(_, _, _)
FeatureWalk(st, walk, d) ==
    IF d > Len(walk) \/ st.err # "none" THEN st
    ELSE FeatureWalk(
             FeatureFiles(st, walk[d].root, walk[d].files,
                          Sorted(DOMAIN walk[d].files), 1),
             walk, d + 1)

\* The whole of load_features on the current state: the fields it leaves and
\* the error it ends in; np.array(self.features) runs when no lookup failed.
LoadFeaturesResult(feature_folder) ==
    LET st == FeatureWalk([feat |-> features, ftype |-> features_type,
                           caps |-> captions, paths |-> frame_paths,
                           vsfp |-> video_seg_feature_path, err |-> "none"],
                          feature_folder, 1)
    IN  IF st.err = "none" THEN [st EXCEPT !.ftype = "ndarray"] ELSE st

load_features(feature_folder) ==
    LET st == LoadFeaturesResult(feature_folder)
    IN  /\ Len(st.feat) <= MaxCorpus
        /\ features' = st.feat
        /\ features_type' = st.ftype
        /\ captions' = st.caps
        /\ frame_paths' = st.paths
        /\ video_seg_feature_path' = st.vsfp
        /\ ret' = [op |-> "load_features",
                   status |-> IF st.err = "none" THEN "ok" ELSE "error",
                   err |-> st.err, feature_folder |-> feature_folder]
        /\ UNCHANGED <<video_seg_id_to_caption, video_seg_frame_path, raw_captions,
                       key_frames, snapshot, at_save>>

\* ------------------------------------------------------- normalize_features

\* sklearn's normalize(X, axis=1): X must hold at least one row.
NormalizeRows(X) == [i \in 1..Len(X) |-> NormalizeRow(X[i])]

normalize_features ==
    IF Len(features) = 0
    THEN /\ ret' = Outcome("normalize_features", "ValueError")
         /\ UNCHANGED <<stores, corpus, snapshot, at_save>>
    ELSE /\ features' = NormalizeRows(features)
         /\ features_type' = "ndarray"
         /\ ret' = Outcome("normalize_features", "none")
         /\ UNCHANGED <<stores, captions, frame_paths, snapshot, at_save>>

\* -------------------------------------------------------------- save / load

\* The tuple pickle.dump writes, in the order save lists the fields.
SaveTuple ==
    <<video_seg_id_to_caption, video_seg_frame_path, <<features_type, features>>,
      captions, raw_captions, frame_paths, video_seg_feature_path, key_frames>>

save ==
    /\ snapshot' = <<SaveTuple>>
    /\ at_save' = [video_seg_id_to_caption |-> video_seg_id_to_caption,
                   video_seg_frame_path |-> video_seg_frame_path,
                   features |-> features,
                   features_type |-> features_type,
                   captions |-> captions,
                   raw_captions |-> raw_captions,
                   frame_paths |-> frame_paths,
                   video_seg_feature_path |-> video_seg_feature_path,
                   key_frames |-> key_frames]
    /\ ret' = Outcome("save", "none")
    /\ UNCHANGED <<stores, corpus>>

\* A variant of LoadFields that unpacks captions and raw_captions in the other
\* order.
LoadFieldsSwapped(data) ==
    [video_seg_id_to_caption |-> data[1],
     video_seg_frame_path |-> data[2],
     features_type |-> data[3][1],
     features |-> data[3][2],
     captions |-> data[5],
     raw_captions |-> data[4],
     frame_paths |-> data[6],
     video_seg_feature_path |-> data[7],
     key_frames |-> data[8]]

\* The fields load assigns from the unpickled tuple, in the order load lists them.
LoadFields(data) ==
    [video_seg_id_to_caption |-> data[1],
     video_seg_frame_path |-> data[2],
     features_type |-> data[3][1],
     features |-> data[3][2],
     captions |-> data[4],
     raw_captions |-> data[5],
     frame_paths |-> data[6],
     video_seg_feature_path |-> data[7],
     key_frames |-> data[8]]

\* open(load_path) fails when nothing was saved there.
load ==
    IF snapshot = << >>
    THEN /\ ret' = Outcome("load", "IOError")
         /\ UNCHANGED <<stores, corpus, snapshot, at_save>>
    ELSE LET f == LoadFields(snapshot[1])
         IN  /\ video_seg_id_to_caption' = f.video_seg_id_to_caption
             /\ video_seg_frame_path' = f.video_seg_frame_path
             /\ features' = f.features
             /\ features_type' = f.features_type
             /\ captions' = f.captions
             /\ raw_captions' = f.raw_captions
             /\ frame_paths' = f.frame_paths
             /\ video_seg_feature_path' = f.video_seg_feature_path
             /\ key_frames' = f.key_frames
             /\ ret' = Outcome("load", "none")
             /\ UNCHANGED <<snapshot, at_save>>

\* dm = DataManager(): a fresh manager; the file at save_path stays.
construct ==
    /\ video_seg_id_to_caption' = << >>
    /\ video_seg_frame_path' = << >>
    /\ features' = << >>
    /\ features_type' = "list"
    /\ captions' = << >>
    /\ raw_captions' = << >>
    /\ frame_paths' = << >>
    /\ video_seg_feature_path' = << >>
    /\ key_frames' = << >>
    /\ ret' = Outcome("construct", "none")
    /\ UNCHANGED <<snapshot, at_save>>

\* ------------------------------------------------------------ the queries

\* np.array([x] * k): k copies for k >= 1, empty for k <= 0.
Filled(x, k) == [j \in 1..k |-> x]

\* The sentinel score -1. of the cosine working set, as a dot product.
SentinelSimilarity == -(Unit * Unit)

\* assert similarity >= -1.01 and assert similarity <= 1.01
SimilarityInRange(similarity) ==
    /\ 100 * similarity >= -(101 * Unit * Unit)
    /\ 100 * similarity <= 101 * Unit * Unit

\* np.argmin / np.argmax: the first position holding the extreme value.
ArgMin(a) == CHOOSE j \in 1..Len(a) :
                 /\ \A m \in 1..Len(a) : a[j] <= a[m]
                 /\ \A m \in 1..(j - 1) : a[m] # a[j]

\* A variant of ArgMax that returns the position of the smallest value.
ArgMaxTakingMin(a) == ArgMin(a)

ArgMax(a) == CHOOSE j \in 1..Len(a) :
                 /\ \A m \in 1..Len(a) : a[j] >= a[m]
                 /\ \A m \in 1..(j - 1) : a[m] # a[j]

\* A variant of Exceeds that also lets an equal score in.
ExceedsOrEquals(similarity, current_min) == similarity >= current_min

\* if similarity > k_max_similarities[idx_min]
Exceeds(similarity, current_min) == similarity > current_min

\* if distance < k_min_distances[idx_max]
Below(distance, current_max) == distance < current_max

\* np.argsort(a): a permutation of the positions that sorts a ascending; the
\* default sort is not stable, so equal values may come in either order.
ArgSorts(a) ==
    {p \in [1..Len(a) -> 1..Len(a)] :
        /\ \A x, y \in 1..Len(a) : x # y => p[x] # p[y]
        /\ \A x \in 1..(Len(a) - 1) : a[p[x]] <= a[p[x + 1]]}

\* a[::-1] and a[args_sort]
Reverse(a) == [j \in 1..Len(a) |-> a[Len(a) + 1 - j]]
Gather(a, args_sort) == [j \in 1..Len(args_sort) |-> a[args_sort[j]]]

\* lst[idx] on a Python list: negative idx counts from the end.
InRange(lst, idx) == idx >= -Len(lst) /\ idx < Len(lst)
PyGet(lst, idx) == lst[(IF idx < 0 THEN idx + Len(lst) ELSE idx) + 1]
AllInRange(lst, indices) == \A j \in 1..Len(indices) : InRange(lst, indices[j])
Lookup(lst, indices) == [j \in 1..Len(indices) |-> PyGet(lst, indices[j])]

\* One iteration of the cosine loop on corpus index i (0-based).
CosineStep(ws, query_feature, i) ==
    LET feature == features[i + 1]
        seen == [ws EXCEPT !.scanned = i + 1]
    IN  IF ~DotDefined(feature, query_feature)
        THEN [seen EXCEPT !.err = "ValueError"]
        ELSE LET similarity == Dot(feature, query_feature)
             IN  IF ~SimilarityInRange(similarity)
                 THEN [seen EXCEPT !.err = "AssertionError"]
                 ELSE IF Len(ws.scores) = 0
                 THEN [seen EXCEPT !.err = "ValueError"]
                 ELSE LET idx_min == ArgMin(ws.scores)
                      IN  IF Exceeds(similarity, ws.scores[idx_min])
                          THEN [seen EXCEPT !.scores[idx_min] = similarity,
                                            !.indices[idx_min] = i]
                          ELSE seen

RECURSIVE CosineScan(_, _, _)
CosineScan(ws, query_feature, i) ==
    IF i >= Len(features) \/ ws.err # "none" THEN ws
    ELSE CosineScan(CosineStep(ws, query_feature, i), query_feature, i + 1)

\* One iteration of the Euclidean loop on corpus index i (0-based).
EuclideanStep(ws, query_feature, i) ==
    LET feature == features[i + 1]
        seen == [ws EXCEPT !.scanned = i + 1]
    IN  IF ~BroadcastOk(feature, query_feature)
        THEN [seen EXCEPT !.err = "ValueError"]
        ELSE LET distance == Distance(feature, query_feature)
             IN  IF Len(ws.scores) = 0
                 THEN [seen EXCEPT !.err = "ValueError"]
                 ELSE LET idx_max == ArgMax(ws.scores)
                      IN  IF Below(distance, ws.scores[idx_max])
                          THEN [seen EXCEPT !.scores[idx_max] = distance,
                                            !.indices[idx_max] = i]
                          ELSE seen

RECURSIVE EuclideanScan(_, _, _)
EuclideanScan(ws, query_feature, i) ==
    IF i >= Len(features) \/ ws.err # "none" THEN ws
    ELSE EuclideanScan(EuclideanStep(ws, query_feature, i), query_feature, i + 1)

\* What a query leaves in ret: the call, how it ended, how many corpus records
\* the loop reached, and the locals k_best_indices, scores, captions,
\* frame_paths as they are at the return statement.
QueryOutcome(op, query_feature, k, ws, args_sort) ==
    LET indices == Gather(ws.indices, args_sort)
        failed == [op |-> op, status |-> "error", err |-> ws.err,
                   query_feature |-> query_feature, k |-> k,
                   scanned |-> ws.scanned, indices |-> << >>, scores |-> << >>,
                   captions |-> << >>, frame_paths |-> << >>]
    IN  IF ws.err # "none" THEN failed
        ELSE IF ~AllInRange(captions, indices) \/ ~AllInRange(frame_paths, indices)
        THEN [failed EXCEPT !.err = "IndexError"]
        ELSE [op |-> op, status |-> "ok", err |-> "none",
              query_feature |-> query_feature, k |-> k,
              scanned |-> ws.scanned, indices |-> indices,
              scores |-> Gather(ws.scores, args_sort),
              captions |-> Lookup(captions, indices),
              frame_paths |-> Lookup(frame_paths, indices)]

\* A variant of the cosine query that normalizes the stored corpus on the way.
CosineQueryNormalizingCorpus(query_feature, k) ==
    LET ws == CosineScan([scores |-> Filled(SentinelSimilarity, k),
                          indices |-> Filled(-1, k),
                          err |-> "none", scanned |-> 0],
                         NormalizeRow(query_feature), 0)
    IN  /\ \E p \in ArgSorts(ws.scores) :
               ret' = QueryOutcome("cosine", query_feature, k, ws, Reverse(p))
        /\ features' = NormalizeRows(features)
        /\ UNCHANGED <<stores, features_type, captions, frame_paths, snapshot, at_save>>

query_knn_caption_brutal_force_cosine_similarity(query_feature, k) ==
    LET ws == CosineScan([scores |-> Filled(SentinelSimilarity, k),
                          indices |-> Filled(-1, k),
                          err |-> "none", scanned |-> 0],
                         NormalizeRow(query_feature), 0)
    IN  /\ \E p \in ArgSorts(ws.scores) :
               ret' = QueryOutcome("cosine", query_feature, k, ws, Reverse(p))
        /\ UNCHANGED <<stores, corpus, snapshot, at_save>>

query_knn_caption_brutal_force_euclidean_distance(query_feature, k) ==
    LET ws == EuclideanScan([scores |-> Filled(Inf, k),
                             indices |-> Filled(-1, k),
                             err |-> "none", scanned |-> 0],
                            query_feature, 0)
    IN  /\ \E p \in ArgSorts(ws.scores) :
               ret' = QueryOutcome("euclidean", query_feature, k, ws, p)
        /\ UNCHANGED <<stores, corpus, snapshot, at_save>>

\* ------------------------------------------------------------------ inputs

\* A 13-character video name and two of its segments, 'v_AAAAAAAAAAA0' and '...1'.
Video == <<"v", "_", "A", "A", "A", "A", "A", "A", "A", "A", "A", "A", "A">>
SegA == Video \o <<"0">>
SegB == Video \o <<"1">>

\* The decimal numeral of a number below 10.
Numeral(n) == <<Digits[n + 1]>>

\* Caption files: the items of the JSON database, each video with its sentences.
CapDB1 == <<[video_name |-> Video, sentences |-> <<"a">>]>>
CapDB2 == <<[video_name |-> Video, sentences |-> <<"a", "b">>]>>
CaptionFiles == {CapDB1, CapDB2}

\* A folder is what os.walk yields for it: its directories in walk order, each
\* with its root path and its files (name -> content).
Image == << >>
Notes == <<"x", ".", "m", "d">>

FrameWalk1 ==
    <<[root |-> <<<<"f">>, SegA>>, files |-> (Numeral(1) \o Jpg) :> Image]>>
FrameWalk2 ==
    <<[root |-> <<<<"f">>, SegA>>,
       files |-> ((Numeral(1) \o Jpg) :> Image) @@ ((Numeral(2) \o Jpg) :> Image)
                 @@ (Notes :> Image)],
      [root |-> <<<<"f">>, SegB>>, files |-> (Numeral(1) \o Jpg) :> Image]>>
FrameFolders == {FrameWalk1, FrameWalk2}

KeyWalk1 ==
    <<[root |-> <<<<"k">>>>,
       files |-> ((SegA \o Txt) :> <<0, 2>>) @@ ((SegB \o Txt) :> <<0>>)
                 @@ (Notes :> << >>)]>>
KeyWalk2 ==
    <<[root |-> <<<<"k">>>>, files |-> (SegA \o Txt) :> <<0, 1>>]>>
KeyFrameFolders == {KeyWalk1, KeyWalk2}

\* Feature rows (fixed point, Unit = 1.0): three unit vectors and one of norm 2.
East == <<5, 0>>
North == <<0, 5>>
West == <<-5, 0>>
Slant == <<3, 4>>
Long == <<6, 8>>

FeatWalk1 ==
    <<[root |-> <<<<"d">>>>,
       files |-> ((SegA \o Txt) :> <<East>>) @@ (Notes :> << >>)]>>
FeatWalk2 ==
    <<[root |-> <<<<"g">>>>,
       files |-> ((SegA \o Txt) :> <<East, Long>>) @@ ((SegB \o Txt) :> <<North>>)]>>
FeatureFolders == {FeatWalk1, FeatWalk2}

\* --------------------------------------------- the assembly specification

Init ==
    /\ FreshManager
    /\ snapshot = << >>
    /\ at_save = << >>
    /\ ret = Outcome("construct", "none")

LoadFramePathInfo == \E f \in FrameFolders : load_frame_path_info(f)
LoadCaptions == \E f \in CaptionFiles : load_captions(f)
LoadKeyFrameInformation == \E f \in KeyFrameFolders : load_key_frame_information(f)
LoadFeatures == \E f \in FeatureFolders : load_features(f)

Next ==
    \/ LoadFramePathInfo
    \/ LoadCaptions
    \/ LoadKeyFrameInformation
    \/ LoadFeatures
    \/ normalize_features

Spec == Init /\ [][Next]_vars

\* ------------------------------------------- the persistence specification

PersistNext ==
    \/ load_frame_path_info(FrameWalk2)
    \/ load_captions(CapDB2)
    \/ load_key_frame_information(KeyWalk1)
    \/ load_features(FeatWalk2)
    \/ normalize_features
    \/ save
    \/ load
    \/ construct

PersistSpec == Init /\ [][PersistNext]_vars

\* ------------------------------------------------- the query specification

\* Corpus vectors (the last one is not unit length: normalize_features turns it
\* into East) and query vectors (the first is not unit length, the last has the
\* wrong dimensionality).
Vectors == {West, Slant, <<10, 0>>}
Queries == {<<10, 0>>, <<-3, -4>>, <<5>>}

CorpusRows == UNION {[1..n -> Vectors] : n \in 0..MaxN}

QueryFolder(rows) == <<[root |-> <<<<"d">>>>, files |-> (SegA \o Txt) :> rows]>>
QueryFramePath(i) == <<<<"f">>, SegA, Numeral(i + 1) \o Jpg>>

\* The state load_features leaves when segment 0 of Video has caption "a", the
\* given feature rows, all of them key frames, and a frame image for each.
QueryInit ==
    \E rows \in CorpusRows :
        /\ video_seg_id_to_caption = (<<Video, 0>> :> "a")
        /\ raw_captions = <<"a">>
        /\ video_seg_frame_path =
               [key \in {<<SegA, i>> : i \in 0..(Len(rows) - 1)} |->
                   QueryFramePath(key[2])]
        /\ key_frames = (SegA :> 0..(Len(rows) - 1))
        /\ video_seg_feature_path = (SegA :> <<<<"d">>, SegA \o Txt>>)
        /\ features = rows
        /\ features_type = "ndarray"
        /\ captions = [i \in 1..Len(rows) |-> "a"]
        /\ frame_paths = [i \in 1..Len(rows) |-> QueryFramePath(i - 1)]
        /\ snapshot = << >>
        /\ at_save = << >>
        /\ ret = [op |-> "load_features", status |-> "ok", err |-> "none",
                  feature_folder |-> QueryFolder(rows)]

QueryCosine ==
    \E q \in Queries, k \in 0..MaxK :
        query_knn_caption_brutal_force_cosine_similarity(q, k)
QueryEuclidean ==
    \E q \in Queries, k \in 0..MaxK :
        query_knn_caption_brutal_force_euclidean_distance(q, k)

QueryNext ==
    \/ normalize_features
    \/ QueryCosine
    \/ QueryEuclidean

QuerySpec == QueryInit /\ [][QueryNext]_vars

\* ------------------------------------------------------------- properties

N == Len(features)

IsQuery == ret.op \in {"cosine", "euclidean"}

\* The query vector has the dimensionality of every corpus vector.
SameDimension == \A i \in 1..N : Len(features[i]) = Len(ret.query_feature)

\* Every corpus vector has L2 norm 1.
UnitCorpus == \A i \in 1..N : Dot(features[i], features[i]) = Unit * Unit

\* The score of corpus index i (0-based) under the query in ret.
ScoreOf(i) ==
    IF ret.op = "cosine"
    THEN Dot(features[i + 1], NormalizeRow(ret.query_feature))
    ELSE Distance(features[i + 1], ret.query_feature)

\* x is a strictly better score than y under the query in ret.
Better(x, y) == IF ret.op = "cosine" THEN x > y ELSE x < y

Positions == 1..Len(ret.indices)
CorpusIndices == 0..(N - 1)
Retained == {ret.indices[j] : j \in Positions} \cap CorpusIndices
Dropped == CorpusIndices \ Retained

\* The '.txt' files load_features visits in a folder, as (directory, name).
VisitedFiles(walk) ==
    UNION {{<<d, name>> : name \in {n \in DOMAIN walk[d].files : EndsWith(n, Txt)}} :
           d \in 1..Len(walk)}

SegmentOf(name) == StripExt(name)
CaptionKeyOf(name) ==
    <<Take(SegmentOf(name), PrefixLen), IntOf(Drop(SegmentOf(name), PrefixLen))>>
WellNamed(name) ==
    /\ Len(SegmentOf(name)) >= MinNameLen
    /\ IsNumeral(Drop(SegmentOf(name), PrefixLen))

\* The frame indices of a visited file that are key frames and have a row.
KeyRows(walk, f) ==
    key_frames[SegmentOf(f[2])] \cap 0..(Len(walk[f[1]].files[f[2]]) - 1)

\* Every visited segment has a caption, a key-frame set, and a frame path for
\* each of its key frames that has a feature row.
Resolvable(walk) ==
    \A f \in VisitedFiles(walk) :
        /\ WellNamed(f[2])
        /\ Has(video_seg_id_to_caption, CaptionKeyOf(f[2]))
        /\ Has(key_frames, SegmentOf(f[2]))
        /\ \A c \in KeyRows(walk, f) : Has(video_seg_frame_path, <<SegmentOf(f[2]), c>>)

\* The sum over the visited segments of |KeyFrameSet /\ rows|.
ExpectedLength(walk) ==
    Cardinality(UNION {{<<f, c>> : c \in KeyRows(walk, f)} : f \in VisitedFiles(walk)})

\* C1: at every observable point the three corpus sequences have the same
\* length, also after a load_features call that aborted part-way.
C1_AlignedLengths ==
    /\ Len(features) = Len(captions)
    /\ Len(captions) = Len(frame_paths)

\* C2: on a non-empty corpus of unit vectors, with 1 <= k <= corpus size, the
\* cosine query returns k distinct corpus positions (never -1) holding the k
\* largest similarities of the corpus, in non-increasing order.
C2_CosineTopK ==
    (/\ ret.op = "cosine"
     /\ N >= 1
     /\ UnitCorpus
     /\ SameDimension
     /\ ret.k >= 1
     /\ ret.k <= N)
    => /\ ret.status = "ok"
       /\ Len(ret.indices) = ret.k
       /\ \A j \in Positions : ret.indices[j] \in CorpusIndices
       /\ \A j, m \in Positions : j # m => ret.indices[j] # ret.indices[m]
       /\ \A j \in Positions : ret.scores[j] = ScoreOf(ret.indices[j])
       /\ \A j \in 1..(ret.k - 1) : ret.scores[j] >= ret.scores[j + 1]
       /\ \A i \in Dropped : \A j \in Positions : ScoreOf(i) <= ret.scores[j]

\* C3: on a non-empty corpus, with 1 <= k <= corpus size, the Euclidean query
\* returns k distinct corpus positions holding the k smallest distances of the
\* corpus, all >= 0, in non-decreasing order.
C3_EuclideanTopK ==
    (/\ ret.op = "euclidean"
     /\ N >= 1
     /\ \A i \in 1..N : BroadcastOk(features[i], ret.query_feature)
     /\ ret.k >= 1
     /\ ret.k <= N)
    => /\ ret.status = "ok"
       /\ Len(ret.indices) = ret.k
       /\ \A j \in Positions : ret.indices[j] \in CorpusIndices
       /\ \A j, m \in Positions : j # m => ret.indices[j] # ret.indices[m]
       /\ \A j \in Positions : ret.scores[j] = ScoreOf(ret.indices[j])
       /\ \A j \in Positions : ret.scores[j] >= 0
       /\ \A j \in 1..(ret.k - 1) : ret.scores[j] <= ret.scores[j + 1]
       /\ \A i \in Dropped : \A j \in Positions : ScoreOf(i) >= ret.scores[j]

\* C3 witness: a Euclidean query with 2 <= k < corpus size returned, its first
\* two distances differ, and a record was left out.
C3_Witness ==
    /\ ret.op = "euclidean"
    /\ ret.status = "ok"
    /\ SameDimension
    /\ ret.k >= 2
    /\ ret.k < N
    /\ ret.scores[1] < ret.scores[2]
    /\ Dropped # {}

\* C4: with k above the corpus size N >= 1, a query returns every corpus record
\* once, and the other k - N positions carry index -1 and the sentinel score
\* and are not reported with the caption or frame path of a corpus record.
C4_SentinelRemainder ==
    (/\ IsQuery
     /\ N >= 1
     /\ ret.k > N
     /\ SameDimension
     /\ (ret.op = "cosine" => UnitCorpus))
    => /\ ret.status = "ok"
       /\ Len(ret.indices) = ret.k
       /\ \A i \in CorpusIndices : Cardinality({j \in Positions : ret.indices[j] = i}) = 1
       /\ \A j \in Positions :
              ret.indices[j] \notin CorpusIndices =>
                  /\ ret.indices[j] = -1
                  /\ ret.scores[j] = (IF ret.op = "cosine" THEN SentinelSimilarity ELSE Inf)
                  /\ \A i \in 1..N : /\ ret.captions[j] # captions[i]
                                     /\ ret.frame_paths[j] # frame_paths[i]

\* C5: a query with k < 1, an empty corpus or a query vector of the wrong
\* dimensionality ends in an error; no such call returns a result. (The claim
\* adds that the error comes before any record is scanned, ret.scanned = 0;
\* already the weaker statement fails.)
C5_InvalidQueryRejected ==
    (/\ IsQuery
     /\ (ret.k < 1 \/ N = 0 \/ ~SameDimension))
    => ret.status = "error"

C7_RoundTrip ==
    (ret.op = "load" /\ ret.status = "ok")
    => /\ video_seg_id_to_caption = at_save.video_seg_id_to_caption
       /\ video_seg_frame_path = at_save.video_seg_frame_path
       /\ features = at_save.features
       /\ features_type = at_save.features_type
       /\ captions = at_save.captions
       /\ raw_captions = at_save.raw_captions
       /\ frame_paths = at_save.frame_paths
       /\ video_seg_feature_path = at_save.video_seg_feature_path
       /\ key_frames = at_save.key_frames

\* C7 witness: a load restored a non-empty corpus whose captions differ from
\* raw_captions.
C7_Witness ==
    /\ ret.op = "load"
    /\ ret.status = "ok"
    /\ Len(features) >= 2
    /\ captions # raw_captions
    /\ DOMAIN key_frames # {}

\* C8: a query step, returning or aborting, changes no store and no corpus
\* sequence.
C8_QueriesChangeNothing ==
    [][ret'.op \in {"cosine", "euclidean"} => UNCHANGED <<stores, corpus>>]_vars

\* C8 witness: a cosine query with a query vector that is not unit length
\* returned on a corpus of at least two records.
C8_Witness ==
    /\ ret.op = "cosine"
    /\ ret.status = "ok"
    /\ NormalizeRow(ret.query_feature) # ret.query_feature
    /\ N >= 2

\* C9: load_features on a fresh corpus, every visited segment having a caption,
\* a key-frame set and frame paths, completes and leaves a corpus whose length
\* is the sum over the segments of the key frames that have a feature row.
C9_CorpusLength ==
    [][(/\ features = << >>
        /\ features_type = "list"
        /\ captions = << >>
        /\ frame_paths = << >>
        /\ ret'.op = "load_features"
        /\ Resolvable(ret'.feature_folder))
       => /\ ret'.status = "ok"
          /\ Len(features') = ExpectedLength(ret'.feature_folder)
          /\ Len(captions') = Len(features')
          /\ Len(frame_paths') = Len(features')]_vars

\* C9 witness: load_features completed with one record for a segment one of
\* whose key frames has no feature row.
C9_Witness ==
    /\ ret.op = "load_features"
    /\ ret.status = "ok"
    /\ Resolvable(ret.feature_folder)
    /\ Len(features) = 1
    /\ Len(features) = ExpectedLength(ret.feature_folder)
    /\ \E f \in VisitedFiles(ret.feature_folder) :
           \E c \in key_frames[SegmentOf(f[2])] :
               c >= Len(ret.feature_folder[f[1]].files[f[2]])

\* C10 as claimed: with k <= corpus size, no record is retained while a record
\* of equal score and smaller index is dropped.
C10_LowestIndexTiesRetained ==
    (/\ IsQuery
     /\ ret.status = "ok"
     /\ SameDimension
     /\ ret.k >= 1
     /\ ret.k <= N)
    => \A i \in Retained : \A j \in Dropped : j < i => ScoreOf(j) # ScoreOf(i)

\* C10 as amended: a record is retained while a record of equal score and
\* smaller index is dropped only if a record after the dropped one has a
\* strictly better score; an equal score never displaces an entry.
C10_TiesDisplacedOnlyByBetter ==
    (/\ IsQuery
     /\ ret.status = "ok"
     /\ ret.k >= 1)
    => \A i \in Retained : \A j \in Dropped :
           (j < i /\ ScoreOf(j) = ScoreOf(i))
           => \E m \in (j + 1)..(N - 1) : Better(ScoreOf(m), ScoreOf(j))

\* C10 witness: a query retained a record while dropping a record of equal
\* score and smaller index.
C10_Witness ==
    /\ IsQuery
    /\ ret.status = "ok"
    /\ ret.k <= N
    /\ \E i \in Retained : \E j \in Dropped : j < i /\ ScoreOf(j) = ScoreOf(i)

====
